---- MODULE Spec2Model ----
(***************************************************************************)
(* Model of src-tauri/src/ffmpeg.rs of video-cropper.                      *)
(*                                                                         *)
(*   process_video         the export command and the task it spawns to    *)
(*                         supervise the ffmpeg child (ExportSpec; two     *)
(*                         exports at the same time in PairSpec)           *)
(*   generate_video_proxy  the cache-or-build proxy command (ProxySpec;    *)
(*                         FreshProxySpec starts from an empty cache)      *)
(*   get_video_codec       the ffprobe codec query (CodecSpec)             *)
(*                                                                         *)
(* Option<T> is modelled as a sequence of length at most one: None is <<>> *)
(* and Some(x) is <<x>>.  A message built by format! is the sequence of    *)
(* its pieces, numbers rendered digit by digit (Decimal).                  *)
(***************************************************************************)
EXTENDS Integers, Sequences, FiniteSets, TLC

\* ---------------------------------------------------------------- bounds
MaxEvents == 3          \* events the children send in all
MaxMtime == 2           \* latest modification time of an input, in ticks
MaxChanges == 1         \* changes made to the input files from outside
TicksPerSec == 2        \* clock ticks in one second (the sub-second part)
MaxStdout == 3          \* bytes the probe writes to its standard output
ChanCap == 1            \* events a channel holds that the loop has not received

\* ------------------------------------------------------- value universes
Exports == {1, 2}                   \* process_video invocations
Lines == {"a", "b"}                 \* output lines of the child
ExitCodes == {0, 1, -1, 12}         \* i32 exit codes
ErrorMsgs == {"io"}                 \* CommandEvent::Error payloads
SpawnErrs == {"program not found"}  \* e.to_string() of a spawn error

Calls == {1, 2}                     \* generate_video_proxy invocations
Paths == {"/v/a.mov", "/v/b.mov"}   \* input_path arguments
Mtimes == -1..MaxMtime              \* SystemTime of an input; < 0 is before UNIX_EPOCH
BuildCodes == {0, 1}                \* exit codes of the transcoding child
BuildStderr == {"Unknown encoder"}  \* what the transcoding child prints

ProbeBytes == {"h", " ", "\n", "0xFF"} \* bytes of the probe's stdout; 0xFF is not UTF-8
ProbeCodes == {0, 1}                \* exit codes of the probe

None == <<>>
Some(x) == <<x>>

\* CommandEvent: one record shape for the four variants.
Ev(k, t, c) == [kind |-> k, text |-> t, code |-> c]
StdoutEvents == {Ev("Stdout", l, None) : l \in Lines}
StderrEvents == {Ev("Stderr", l, None) : l \in Lines}
TerminatedEvents == {Ev("Terminated", "", c) : c \in {None} \cup {Some(x) : x \in ExitCodes}}
ErrorEvents == {Ev("Error", m, None) : m \in ErrorMsgs}
CommandEvent == StdoutEvents \cup StderrEvents \cup TerminatedEvents \cup ErrorEvents

Ok(s) == <<"Ok", s>>
Err(s) == <<"Err", s>>
NotReturned == <<>>

Notif(n, p) == [name |-> n, payload |-> p]

\* ------------------------------------------------------------ formatting
Digit(d) == CASE d = 0 -> "0" [] d = 1 -> "1" [] d = 2 -> "2" [] d = 3 -> "3"
              [] d = 4 -> "4" [] d = 5 -> "5" [] d = 6 -> "6" [] d = 7 -> "7"
              [] d = 8 -> "8" [] d = 9 -> "9"

RECURSIVE DecimalNat(_)
DecimalNat(n) == IF n < 10 THEN <<Digit(n)>>
                 ELSE DecimalNat(n \div 10) \o <<Digit(n % 10)>>

\* format!("{}", code) for an i32
Decimal(n) == IF n < 0 THEN <<"-">> \o DecimalNat(0 - n) ELSE DecimalNat(n)

\* ----------------------------------------------------------------- state
VARIABLES
    epc,                \* where each process_video invocation is
    eret,               \* what the command returned to its caller
    chan,               \* rx: events sent by the child, not yet received
    chanClosed,         \* all senders of rx dropped
    exit_code,          \* Option<i32>
    command_error,      \* Option<String>
    last_progress_line, \* Option<String>
    notifs,             \* notifications the window accepted, in order
    received,           \* history: events rx.recv() handed to the loop
    procAlive           \* the ffmpeg child of the export has not exited yet

evars == <<epc, eret, chan, chanClosed, exit_code, command_error,
           last_progress_line, notifs, received, procAlive>>

VARIABLES
    inputExists,        \* filesystem: is there a file at the input path
    inputMtime,         \* filesystem: its modification time, in ticks
    appDir,             \* what the path resolver and create_dir_all will do
    cacheDirExists,     \* filesystem: <app local data>/video_previews exists
    cacheFiles,         \* filesystem: files present in video_previews
    gpc,                \* where each generate_video_proxy call is
    input_path,         \* Option<String>: the argument of the call
    modified,           \* Option: metadata.modified() as read by the call
    output_path,        \* Option: cache_dir.join("<hash>_<secs>.mp4")
    child,              \* the call's ffmpeg child: "none", "running", "exited"
    output,             \* Option: the Output of the exited child
    gret,               \* what the call returned
    glog,               \* history: the call's filesystem and process operations
    gbefore,            \* history: calls that had ended when this one began
    gtouched,           \* history: the input was modified since the call began
    changes             \* history: changes made to the input files so far

gvars == <<inputExists, inputMtime, appDir, cacheDirExists, cacheFiles, gpc,
           input_path, modified, output_path, child, output, gret, glog,
           gbefore, gtouched, changes>>

VARIABLES
    cpc,                \* where the get_video_codec call is
    probe_stdout,       \* bytes the running probe has written to stdout
    probe_output,       \* Option: the Output of the exited probe
    cret                \* what the call returned

cvars == <<cpc, probe_stdout, probe_output, cret>>

vars == <<evars, gvars, cvars>>

EInit ==
    /\ epc = [i \in Exports |-> "idle"]
    /\ eret = [i \in Exports |-> NotReturned]
    /\ chan = [i \in Exports |-> <<>>]
    /\ chanClosed = [i \in Exports |-> FALSE]
    /\ exit_code = [i \in Exports |-> None]
    /\ command_error = [i \in Exports |-> None]
    /\ last_progress_line = [i \in Exports |-> None]
    /\ notifs = [i \in Exports |-> <<>>]
    /\ received = [i \in Exports |-> <<>>]
    /\ procAlive = [i \in Exports |-> FALSE]

\* ------------------------------------------------ process_video: command
\* Mutant: the spawn error is returned but the supervising task starts anyway.
ProcessVideoSpawnErrStillSupervises(i, e) ==
    /\ epc[i] = "idle"
    /\ epc' = [epc EXCEPT ![i] = "loop"]
    /\ eret' = [eret EXCEPT ![i] = Err(e)]
    /\ UNCHANGED <<chan, chanClosed, exit_code, command_error,
                   last_progress_line, notifs, received>>
    /\ UNCHANGED <<procAlive, gvars, cvars>>

\* command.spawn() fails: `?` returns the error string, nothing is spawned.
ProcessVideoSpawnErr(i, e) ==
    /\ epc[i] = "idle"
    /\ epc' = [epc EXCEPT ![i] = "spawn_failed"]
    /\ eret' = [eret EXCEPT ![i] = Err(e)]
    /\ UNCHANGED <<chan, chanClosed, exit_code, command_error,
                   last_progress_line, notifs, received>>
    /\ UNCHANGED <<procAlive, gvars, cvars>>

\* command.spawn() succeeds: the supervising task starts with its three
\* locals set to None and the command returns Ok("Processing started").
ProcessVideoSpawnOk(i) ==
    /\ epc[i] = "idle"
    /\ epc' = [epc EXCEPT ![i] = "loop"]
    /\ eret' = [eret EXCEPT ![i] = Ok("Processing started")]
    /\ exit_code' = [exit_code EXCEPT ![i] = None]
    /\ command_error' = [command_error EXCEPT ![i] = None]
    /\ last_progress_line' = [last_progress_line EXCEPT ![i] = None]
    /\ procAlive' = [procAlive EXCEPT ![i] = TRUE]
    /\ UNCHANGED <<chan, chanClosed, notifs, received>>
    /\ UNCHANGED <<gvars, cvars>>

Spawned(i) == epc[i] \notin {"idle", "spawn_failed"}

\* ------------------------------------------ the child's side of channel rx
\* The events the children of the exports in S have sent so far.
RECURSIVE SentBy(_)
SentBy(S) ==
    IF S = {} THEN 0
    ELSE LET i == CHOOSE x \in S : TRUE
         IN Len(received[i]) + Len(chan[i]) + SentBy(S \ {i})

\* The ffmpeg child exits (or is killed).
ProcExit(i) ==
    /\ procAlive[i]
    /\ procAlive' = [procAlive EXCEPT ![i] = FALSE]
    /\ UNCHANGED <<epc, eret, chan, chanClosed, exit_code, command_error,
                   last_progress_line, notifs, received>>
    /\ UNCHANGED <<gvars, cvars>>

\* The child (through the library's reader and wait threads) sends any
\* event, in any order, until every sender is dropped; Terminated tells
\* that "the FFmpeg process has exited" and is sent after the exit only.
ProcSend(i, ev) ==
    /\ Spawned(i)
    /\ ~chanClosed[i]
    /\ ev.kind = "Terminated" => ~procAlive[i]
    /\ SentBy(Exports) < MaxEvents
    /\ Len(chan[i]) < ChanCap
    /\ chan' = [chan EXCEPT ![i] = Append(@, ev)]
    /\ UNCHANGED <<epc, eret, chanClosed, exit_code, command_error,
                   last_progress_line, notifs, received>>
    /\ UNCHANGED <<procAlive, gvars, cvars>>

ProcClose(i) ==
    /\ Spawned(i)
    /\ ~chanClosed[i]
    /\ chanClosed' = [chanClosed EXCEPT ![i] = TRUE]
    /\ UNCHANGED <<epc, eret, chan, exit_code, command_error,
                   last_progress_line, notifs, received>>
    /\ UNCHANGED <<procAlive, gvars, cvars>>

\* --------------------------------------- process_video: supervising task
\* rx.recv().await yields Some(event): the head of the channel.
Takes(i, k) ==
    /\ epc[i] = "loop"
    /\ chan[i] # <<>>
    /\ Head(chan[i]).kind = k
    /\ chan' = [chan EXCEPT ![i] = Tail(@)]
    /\ received' = [received EXCEPT ![i] = Append(@, Head(chan[i]))]

\* window.emit(name, payload).unwrap(): the window accepts the event, or
\* emit returns Err and unwrap panics, which ends the task.
EmitUnwrap(i, n, ok, pcAfter) ==
    IF ok
    THEN /\ notifs' = [notifs EXCEPT ![i] = Append(@, n)]
         /\ epc' = [epc EXCEPT ![i] = pcAfter]
    ELSE /\ notifs' = notifs
         /\ epc' = [epc EXCEPT ![i] = "panicked"]

\* Mutant: a Stdout line is surfaced as progress too.
RecvStdoutSurfaces(i) ==
    /\ Takes(i, "Stdout")
    /\ notifs' = [notifs EXCEPT ![i] = Append(@, Notif("ffmpeg-progress", <<Head(chan[i]).text>>))]
    /\ UNCHANGED <<epc, eret, chanClosed, exit_code, command_error,
                   last_progress_line>>
    /\ UNCHANGED <<procAlive, gvars, cvars>>

\* Stdout(_line) => {}
RecvStdout(i) ==
    /\ Takes(i, "Stdout")
    /\ UNCHANGED <<epc, eret, chanClosed, exit_code, command_error,
                   last_progress_line, notifs>>
    /\ UNCHANGED <<procAlive, gvars, cvars>>

\* Mutant: every diagnostic line is emitted, repeated or not.
ShouldEmitAlways(last, line) == TRUE

\* last_progress_line.as_ref() != Some(&line)
ShouldEmit(last, line) == last # Some(line)

\* Stderr(line): emit the line unless it repeats the last emitted one.
\* Mutant: the dedup state is one value shared by all exports.
RecvStderrSharedDedup(i, ok) ==
    /\ Takes(i, "Stderr")
    /\ LET line == Head(chan[i]).text IN
       IF ShouldEmit(last_progress_line[i], line)
       THEN /\ EmitUnwrap(i, Notif("ffmpeg-progress", <<line>>), ok, "loop")
            /\ last_progress_line' =
                 IF ok THEN [j \in Exports |-> Some(line)]
                 ELSE last_progress_line
       ELSE /\ ok
            /\ UNCHANGED <<epc, notifs, last_progress_line>>
    /\ UNCHANGED <<eret, chanClosed, exit_code, command_error>>
    /\ UNCHANGED <<procAlive, gvars, cvars>>

RecvStderr(i, ok) ==
    /\ Takes(i, "Stderr")
    /\ LET line == Head(chan[i]).text IN
       IF ShouldEmit(last_progress_line[i], line)
       THEN /\ EmitUnwrap(i, Notif("ffmpeg-progress", <<line>>), ok, "loop")
            /\ last_progress_line' =
                 IF ok THEN [last_progress_line EXCEPT ![i] = Some(line)]
                 ELSE last_progress_line
       ELSE /\ ok
            /\ UNCHANGED <<epc, notifs, last_progress_line>>
    /\ UNCHANGED <<eret, chanClosed, exit_code, command_error>>
    /\ UNCHANGED <<procAlive, gvars, cvars>>

\* Mutant: the exit code is stored but the loop goes on reading.
RecvTerminatedNoBreak(i) ==
    /\ Takes(i, "Terminated")
    /\ exit_code' = [exit_code EXCEPT ![i] = Head(chan[i]).code]
    /\ UNCHANGED <<epc, eret, chanClosed, command_error, last_progress_line, notifs>>
    /\ UNCHANGED <<procAlive, gvars, cvars>>

\* Terminated(payload): exit_code = payload.code; break
RecvTerminated(i) ==
    /\ Takes(i, "Terminated")
    /\ exit_code' = [exit_code EXCEPT ![i] = Head(chan[i]).code]
    /\ epc' = [epc EXCEPT ![i] = "post"]
    /\ UNCHANGED <<eret, chanClosed, command_error, last_progress_line, notifs>>
    /\ UNCHANGED <<procAlive, gvars, cvars>>

\* Mutant: an Error event is recorded as exit code 1.
RecvErrorAsExitCode(i) ==
    /\ Takes(i, "Error")
    /\ exit_code' = [exit_code EXCEPT ![i] = Some(1)]
    /\ epc' = [epc EXCEPT ![i] = "post"]
    /\ UNCHANGED <<eret, chanClosed, command_error, last_progress_line, notifs>>
    /\ UNCHANGED <<procAlive, gvars, cvars>>

\* Error(err): command_error = Some(err); break
RecvError(i) ==
    /\ Takes(i, "Error")
    /\ command_error' = [command_error EXCEPT ![i] = Some(Head(chan[i]).text)]
    /\ epc' = [epc EXCEPT ![i] = "post"]
    /\ UNCHANGED <<eret, chanClosed, exit_code, last_progress_line, notifs>>
    /\ UNCHANGED <<procAlive, gvars, cvars>>

\* rx.recv().await yields None: channel closed and drained, the loop ends.
RecvNone(i) ==
    /\ epc[i] = "loop"
    /\ chan[i] = <<>>
    /\ chanClosed[i]
    /\ epc' = [epc EXCEPT ![i] = "post"]
    /\ UNCHANGED <<eret, chan, chanClosed, exit_code, command_error,
                   last_progress_line, notifs, received>>
    /\ UNCHANGED <<procAlive, gvars, cvars>>

\* Mutant: any non-negative exit code counts as success.
TerminalNotificationLaxSuccess(cerr, code) ==
    IF cerr # None
    THEN Notif("ffmpeg-error", <<"Tauri Command Error: ", cerr[1]>>)
    ELSE IF code # None
         THEN IF code[1] >= 0
              THEN Notif("ffmpeg-finished", <<"Successfully processed video">>)
              ELSE Notif("ffmpeg-error",
                         <<"FFmpeg exited with error code: ">> \o Decimal(code[1]))
         ELSE Notif("ffmpeg-error",
                    <<"FFmpeg process finished without explicit status code.">>)

\* Mutant: a non-zero exit code falls through to the fallback message.
TerminalNotificationNoCodeBranch(cerr, code) ==
    IF cerr # None
    THEN Notif("ffmpeg-error", <<"Tauri Command Error: ", cerr[1]>>)
    ELSE IF code # None /\ code[1] = 0
         THEN Notif("ffmpeg-finished", <<"Successfully processed video">>)
         ELSE Notif("ffmpeg-error",
                    <<"FFmpeg process finished without explicit status code.">>)

\* The if / else-if / else chain after the loop.
TerminalNotification(cerr, code) ==
    IF cerr # None
    THEN Notif("ffmpeg-error", <<"Tauri Command Error: ", cerr[1]>>)
    ELSE IF code # None
         THEN IF code[1] = 0
              THEN Notif("ffmpeg-finished", <<"Successfully processed video">>)
              ELSE Notif("ffmpeg-error",
                         <<"FFmpeg exited with error code: ">> \o Decimal(code[1]))
         ELSE Notif("ffmpeg-error",
                    <<"FFmpeg process finished without explicit status code.">>)

EmitTerminal(i, ok) ==
    /\ epc[i] = "post"
    /\ EmitUnwrap(i, TerminalNotification(command_error[i], exit_code[i]), ok, "done")
    /\ UNCHANGED <<eret, chan, chanClosed, exit_code, command_error,
                   last_progress_line, received>>
    /\ UNCHANGED <<procAlive, gvars, cvars>>

ExportNext(i) ==
    \/ \E e \in SpawnErrs : ProcessVideoSpawnErr(i, e)
    \/ ProcessVideoSpawnOk(i)
    \/ ProcExit(i)
    \/ \E ev \in CommandEvent : ProcSend(i, ev)
    \/ ProcClose(i)
    \/ RecvStdout(i)
    \/ \E ok \in BOOLEAN : RecvStderr(i, ok)
    \/ RecvTerminated(i)
    \/ RecvError(i)
    \/ RecvNone(i)
    \/ \E ok \in BOOLEAN : EmitTerminal(i, ok)

\* ================================================== generate_video_proxy
\* md5::compute(&input_path) printed with {:x}: a fixed digest per path
\* string, taken to differ between the paths of the model.
Md5Hex(p) == IF p = "/v/a.mov" THEN "0cc1" ELSE "92eb"

\* modified.duration_since(UNIX_EPOCH): Err for a time before the epoch
DurationSinceEpoch(t) == IF t < 0 THEN None ELSE Some(t)

\* Mutant: the modification time does not reach the file name.
AsSecsIgnored(t) == 0

\* Duration::as_secs(): whole seconds, the sub-second part dropped
AsSecs(t) == t \div TicksPerSec

\* cache_dir.join(format!("{}_{}.mp4", input_hash, modified_secs))
OutputPath(p, t) ==
    <<"video_previews/", Md5Hex(p), "_">> \o Decimal(AsSecs(t)) \o <<".mp4">>

\* {:?} of an Option<i32>
DebugCode(c) == IF c = None THEN <<"None">> ELSE <<"Some(">> \o Decimal(c[1]) \o <<")">>

\* the Output of a child: exit status (code None: killed by a signal) and
\* the captured streams
Outputs == {[code |-> c, stderr |-> e, stdout |-> ""] :
               c \in {None} \cup {Some(x) : x \in BuildCodes}, e \in BuildStderr}

\* output.status.success()
Success(o) == o.code = Some(0)

InputNotFound(p) == Err(<<"Input file not found: ", p>>)
NoAppDir == Err(<<"Failed to get app directory">>)
CannotCreateCacheDir == Err(<<"Cannot create cache dir: ", "os error">>)
CannotReadMetadata == Err(<<"Cannot read file metadata: ", "os error">>)
FailedToExecute ==
    Err(<<"Failed to execute FFmpeg: ", "os error", ". Is FFmpeg installed and in PATH?">>)
FfmpegFailed(o) ==
    Err(<<"FFmpeg failed (code: ">> \o DebugCode(o.code)
          \o <<")\nStderr: ", o.stderr, "\nStdout: ", o.stdout>>)
OutputMissing == Err(<<"FFmpeg reported success but output file not found">>)

Op(o, path, r) == [op |-> o, path |-> path, res |-> r]

\* every output path a call can derive
AllOutputPaths == {OutputPath(p, t) : p \in Paths, t \in 0..MaxMtime}

\* The proxy commands start on a machine whose cache is empty or holds one
\* proxy from an earlier session.
GInit ==
    /\ inputExists \in [Paths -> BOOLEAN]
    /\ inputMtime \in [Paths -> {0}]
    /\ appDir \in {"ok", "none", "uncreatable", "not utf-8"}
    /\ cacheFiles \in {{}} \cup {{f} : f \in AllOutputPaths}
    /\ cacheFiles # {} => appDir = "ok"
    /\ cacheDirExists = (cacheFiles # {})
    /\ gpc = [c \in Calls |-> "idle"]
    /\ input_path = [c \in Calls |-> None]
    /\ modified = [c \in Calls |-> None]
    /\ output_path = [c \in Calls |-> None]
    /\ child = [c \in Calls |-> "none"]
    /\ output = [c \in Calls |-> None]
    /\ gret = [c \in Calls |-> NotReturned]
    /\ glog = [c \in Calls |-> <<>>]
    /\ gbefore = [c \in Calls |-> {}]
    /\ gtouched = [c \in Calls |-> FALSE]
    /\ changes = 0

\* No proxy call is made: a fresh machine with both inputs present.
GIdle ==
    /\ GInit
    /\ inputExists = [p \in Paths |-> TRUE]
    /\ appDir = "ok"
    /\ cacheFiles = {}

Ended(c) == gpc[c] \in {"done", "panicked"}

\* return from the call with result r
Return(c, r) ==
    /\ gpc' = [gpc EXCEPT ![c] = "done"]
    /\ gret' = [gret EXCEPT ![c] = r]

Log(c, entry) == glog' = [glog EXCEPT ![c] = Append(@, entry)]

\* Mutant: the input is looked at but the call goes on either way.
GenValidateUnchecked(c, p) ==
    /\ gpc[c] = "idle"
    /\ input_path' = [input_path EXCEPT ![c] = Some(p)]
    /\ gbefore' = [gbefore EXCEPT ![c] = {d \in Calls : Ended(d)}]
    /\ Log(c, Op("input.exists", <<p>>, inputExists[p]))
    /\ gpc' = [gpc EXCEPT ![c] = "cache_dir"]
    /\ gret' = gret
    /\ UNCHANGED <<inputExists, inputMtime, appDir, cacheDirExists, cacheFiles,
                   modified, output_path, child, output, gtouched, changes>>
    /\ UNCHANGED <<evars, cvars>>

\* The call begins; input.exists() is false: Err, or true: go on.
GenValidate(c, p) ==
    /\ gpc[c] = "idle"
    /\ input_path' = [input_path EXCEPT ![c] = Some(p)]
    /\ gbefore' = [gbefore EXCEPT ![c] = {d \in Calls : Ended(d)}]
    /\ Log(c, Op("input.exists", <<p>>, inputExists[p]))
    /\ IF ~inputExists[p]
       THEN Return(c, InputNotFound(p))
       ELSE /\ gpc' = [gpc EXCEPT ![c] = "cache_dir"]
            /\ gret' = gret
    /\ UNCHANGED <<inputExists, inputMtime, appDir, cacheDirExists, cacheFiles,
                   modified, output_path, child, output, gtouched, changes>>
    /\ UNCHANGED <<evars, cvars>>

\* app_local_data_dir().ok_or(..)?, then create_dir_all(&cache_dir).await
GenCacheDir(c) ==
    /\ gpc[c] = "cache_dir"
    /\ IF appDir = "none"
       THEN /\ Return(c, NoAppDir)
            /\ Log(c, Op("app_local_data_dir", <<>>, FALSE))
            /\ UNCHANGED cacheDirExists
       ELSE IF appDir = "uncreatable"
       THEN /\ Return(c, CannotCreateCacheDir)
            /\ Log(c, Op("create_dir_all", <<"video_previews/">>, FALSE))
            /\ UNCHANGED cacheDirExists
       ELSE /\ gpc' = [gpc EXCEPT ![c] = "metadata"]
            /\ gret' = gret
            /\ Log(c, Op("create_dir_all", <<"video_previews/">>, TRUE))
            /\ cacheDirExists' = TRUE
    /\ UNCHANGED <<inputExists, inputMtime, appDir, cacheFiles, input_path,
                   modified, output_path, child, output, gbefore, gtouched, changes>>
    /\ UNCHANGED <<evars, cvars>>

\* fs::metadata(&input).await, modified(), duration_since(..).unwrap(),
\* as_secs(), and the output path built from hash and seconds.
GenMetadata(c) ==
    /\ gpc[c] = "metadata"
    /\ LET p == input_path[c][1]
           t == inputMtime[p]
       IN IF ~inputExists[p]
          THEN /\ Return(c, CannotReadMetadata)
               /\ Log(c, Op("metadata", <<p>>, FALSE))
               /\ UNCHANGED <<modified, output_path>>
          ELSE /\ Log(c, Op("metadata", <<p>>, TRUE))
               /\ modified' = [modified EXCEPT ![c] = Some(t)]
               /\ IF DurationSinceEpoch(t) = None
                  THEN /\ gpc' = [gpc EXCEPT ![c] = "panicked"]
                       /\ UNCHANGED <<gret, output_path>>
                  ELSE /\ gpc' = [gpc EXCEPT ![c] = "lookup"]
                       /\ output_path' = [output_path EXCEPT ![c] =
                              Some(OutputPath(p, DurationSinceEpoch(t)[1]))]
                       /\ gret' = gret
    /\ UNCHANGED <<inputExists, inputMtime, appDir, cacheDirExists, cacheFiles,
                   input_path, child, output, gbefore, gtouched, changes>>
    /\ UNCHANGED <<evars, cvars>>

\* output_path.to_str().unwrap(): None for a path that is not UTF-8
ToStrUnwrapPanics == appDir = "not utf-8"

\* Mutant: the cache is never consulted, every call builds.
GenLookupNeverHits(c) ==
    /\ gpc[c] = "lookup"
    /\ Log(c, Op("output.exists", output_path[c][1], FALSE))
    /\ IF ToStrUnwrapPanics
       THEN gpc' = [gpc EXCEPT ![c] = "panicked"]
       ELSE gpc' = [gpc EXCEPT ![c] = "spawn"]
    /\ UNCHANGED <<inputExists, inputMtime, appDir, cacheDirExists, cacheFiles,
                   input_path, modified, output_path, child, output, gret,
                   gbefore, gtouched, changes>>
    /\ UNCHANGED <<evars, cvars>>

\* if output_path.exists() { return Ok(output_path) }
GenLookup(c) ==
    /\ gpc[c] = "lookup"
    /\ LET out == output_path[c][1]
           hit == out \in cacheFiles
       IN /\ Log(c, Op("output.exists", out, hit))
          /\ IF ToStrUnwrapPanics
             THEN /\ gpc' = [gpc EXCEPT ![c] = "panicked"]
                  /\ gret' = gret
             ELSE IF hit
             THEN Return(c, Ok(out))
             ELSE /\ gpc' = [gpc EXCEPT ![c] = "spawn"]
                  /\ gret' = gret
    /\ UNCHANGED <<inputExists, inputMtime, appDir, cacheDirExists, cacheFiles,
                   input_path, modified, output_path, child, output, gbefore,
                   gtouched, changes>>
    /\ UNCHANGED <<evars, cvars>>

\* Command::new("ffmpeg").args(args).output(): the child starts, or the
\* spawn fails and the error is returned.
GenSpawn(c, ok) ==
    /\ gpc[c] = "spawn"
    /\ Log(c, Op("spawn", output_path[c][1], ok))
    /\ IF ok
       THEN /\ child' = [child EXCEPT ![c] = "running"]
            /\ gpc' = [gpc EXCEPT ![c] = "await"]
            /\ gret' = gret
       ELSE /\ Return(c, FailedToExecute)
            /\ child' = child
    /\ UNCHANGED <<inputExists, inputMtime, appDir, cacheDirExists, cacheFiles,
                   input_path, modified, output_path, output, gbefore, gtouched, changes>>
    /\ UNCHANGED <<evars, cvars>>

\* the call's child has written its output file
Wrote(c) == \E k \in 1..Len(glog[c]) : glog[c][k].op = "ffmpeg.write"

\* The child writes (-y: overwrites) the file named by its last argument.
FfmpegWrite(c) ==
    /\ child[c] = "running"
    /\ ~Wrote(c)
    /\ cacheFiles' = cacheFiles \cup {output_path[c][1]}
    /\ Log(c, Op("ffmpeg.write", output_path[c][1], TRUE))
    /\ UNCHANGED <<inputExists, inputMtime, appDir, cacheDirExists, gpc,
                   input_path, modified, output_path, child, output, gret,
                   gbefore, gtouched, changes>>
    /\ UNCHANGED <<evars, cvars>>

\* The child exits, with or without having written its output.
FfmpegExit(c, o) ==
    /\ child[c] = "running"
    /\ child' = [child EXCEPT ![c] = "exited"]
    /\ output' = [output EXCEPT ![c] = Some(o)]
    /\ UNCHANGED <<inputExists, inputMtime, appDir, cacheDirExists, cacheFiles,
                   gpc, input_path, modified, output_path, gret, glog, gbefore,
                   gtouched, changes>>
    /\ UNCHANGED <<evars, cvars>>

\* Mutant: the exit status is not looked at, the file check decides.
GenAwaitOutputNoStatusCheck(c) ==
    /\ gpc[c] = "await"
    /\ child[c] = "exited"
    /\ gpc' = [gpc EXCEPT ![c] = "verify"]
    /\ UNCHANGED <<inputExists, inputMtime, appDir, cacheDirExists, cacheFiles,
                   input_path, modified, output_path, child, output, gret, glog,
                   gbefore, gtouched, changes>>
    /\ UNCHANGED <<evars, cvars>>

\* .output().await completes; if !output.status.success() { return Err(..) }
GenAwaitOutput(c) ==
    /\ gpc[c] = "await"
    /\ child[c] = "exited"
    /\ IF ~Success(output[c][1])
       THEN Return(c, FfmpegFailed(output[c][1]))
       ELSE /\ gpc' = [gpc EXCEPT ![c] = "verify"]
            /\ gret' = gret
    /\ UNCHANGED <<inputExists, inputMtime, appDir, cacheDirExists, cacheFiles,
                   input_path, modified, output_path, child, output, glog,
                   gbefore, gtouched, changes>>
    /\ UNCHANGED <<evars, cvars>>

\* Mutant: a zero exit status is taken as proof that the file is there.
GenVerifyTrusting(c) ==
    /\ gpc[c] = "verify"
    /\ Log(c, Op("output.exists", output_path[c][1], output_path[c][1] \in cacheFiles))
    /\ Return(c, Ok(output_path[c][1]))
    /\ UNCHANGED <<inputExists, inputMtime, appDir, cacheDirExists, cacheFiles,
                   input_path, modified, output_path, child, output, gbefore,
                   gtouched, changes>>
    /\ UNCHANGED <<evars, cvars>>

\* Mutant: the test of the file check is inverted.
GenVerifyNegated(c) ==
    /\ gpc[c] = "verify"
    /\ LET out == output_path[c][1]
           there == out \in cacheFiles
       IN /\ Log(c, Op("output.exists", out, there))
          /\ IF there THEN Return(c, OutputMissing) ELSE Return(c, Ok(out))
    /\ UNCHANGED <<inputExists, inputMtime, appDir, cacheDirExists, cacheFiles,
                   input_path, modified, output_path, child, output, gbefore,
                   gtouched, changes>>
    /\ UNCHANGED <<evars, cvars>>

\* if !output_path.exists() { return Err(..) }  Ok(output_path)
GenVerify(c) ==
    /\ gpc[c] = "verify"
    /\ LET out == output_path[c][1]
           there == out \in cacheFiles
       IN /\ Log(c, Op("output.exists", out, there))
          /\ IF there THEN Return(c, Ok(out)) ELSE Return(c, OutputMissing)
    /\ UNCHANGED <<inputExists, inputMtime, appDir, cacheDirExists, cacheFiles,
                   input_path, modified, output_path, child, output, gbefore,
                   gtouched, changes>>
    /\ UNCHANGED <<evars, cvars>>

\* calls that have begun on input p
CallsOn(p) == {c \in Calls : input_path[c] = Some(p)}

\* Outside the program: the input file is modified (its mtime set to t).
TouchInput(p, t) ==
    /\ inputExists[p]
    /\ changes < MaxChanges
    /\ changes' = changes + 1
    /\ t # inputMtime[p]
    /\ inputMtime' = [inputMtime EXCEPT ![p] = t]
    /\ gtouched' = [c \in Calls |-> gtouched[c] \/ c \in CallsOn(p)]
    /\ UNCHANGED <<inputExists, appDir, cacheDirExists, cacheFiles, gpc,
                   input_path, modified, output_path, child, output, gret,
                   glog, gbefore>>
    /\ UNCHANGED <<evars, cvars>>

\* Outside the program: the input file is removed.
RemoveInput(p) ==
    /\ inputExists[p]
    /\ changes < MaxChanges
    /\ changes' = changes + 1
    /\ inputExists' = [inputExists EXCEPT ![p] = FALSE]
    /\ gtouched' = [c \in Calls |-> gtouched[c] \/ c \in CallsOn(p)]
    /\ UNCHANGED <<inputMtime, appDir, cacheDirExists, cacheFiles, gpc,
                   input_path, modified, output_path, child, output, gret,
                   glog, gbefore>>
    /\ UNCHANGED <<evars, cvars>>

GNext ==
    \/ \E c \in Calls, p \in Paths : GenValidate(c, p)
    \/ \E c \in Calls : GenCacheDir(c)
    \/ \E c \in Calls : GenMetadata(c)
    \/ \E c \in Calls : GenLookup(c)
    \/ \E c \in Calls, ok \in BOOLEAN : GenSpawn(c, ok)
    \/ \E c \in Calls : FfmpegWrite(c)
    \/ \E c \in Calls, o \in Outputs : FfmpegExit(c, o)
    \/ \E c \in Calls : GenAwaitOutput(c)
    \/ \E c \in Calls : GenVerify(c)
    \/ \E p \in Paths, t \in Mtimes : TouchInput(p, t)
    \/ \E p \in Paths : RemoveInput(p)

\* ======================================================= get_video_codec
CInit ==
    /\ cpc = "idle"
    /\ probe_stdout = <<>>
    /\ probe_output = None
    /\ cret = NotReturned

\* String::from_utf8_lossy: bytes that are not UTF-8 become U+FFFD
FromUtf8Lossy(bs) == [k \in 1..Len(bs) |-> IF bs[k] = "0xFF" THEN "U+FFFD" ELSE bs[k]]

\* char::is_whitespace, on the characters of the model
IsWhitespace(ch) == ch \in {" ", "\n"}

RECURSIVE TrimStart(_)
TrimStart(s) == IF s # <<>> /\ IsWhitespace(Head(s)) THEN TrimStart(Tail(s)) ELSE s

RECURSIVE TrimEnd(_)
TrimEnd(s) ==
    IF s # <<>> /\ IsWhitespace(s[Len(s)]) THEN TrimEnd(SubSeq(s, 1, Len(s) - 1)) ELSE s

\* Mutant: only the end of the text is trimmed.
TrimEndOnly(s) == TrimEnd(s)

\* str::trim()
Trim(s) == TrimEnd(TrimStart(s))

\* Command::new("ffprobe")...output().await fails to start the probe:
\* map_err(|e| e.to_string())? returns the error.
CodecSpawnErr(e) ==
    /\ cpc = "idle"
    /\ cpc' = "returned"
    /\ cret' = Err(<<e>>)
    /\ UNCHANGED <<probe_stdout, probe_output>>
    /\ UNCHANGED <<evars, gvars>>

\* the probe starts
CodecSpawnOk ==
    /\ cpc = "idle"
    /\ cpc' = "running"
    /\ UNCHANGED <<probe_stdout, probe_output, cret>>
    /\ UNCHANGED <<evars, gvars>>

\* the probe writes a byte to its standard output
ProbeWrite(b) ==
    /\ cpc = "running"
    /\ Len(probe_stdout) < MaxStdout
    /\ probe_stdout' = Append(probe_stdout, b)
    /\ UNCHANGED <<cpc, probe_output, cret>>
    /\ UNCHANGED <<evars, gvars>>

\* the probe exits (code None: killed by a signal); output() resolves
ProbeExit(c) ==
    /\ cpc = "running"
    /\ cpc' = "exited"
    /\ probe_output' = Some([code |-> c, stdout |-> probe_stdout])
    /\ UNCHANGED <<probe_stdout, cret>>
    /\ UNCHANGED <<evars, gvars>>

\* Ok(String::from_utf8_lossy(&output.stdout).trim().to_string()); the
\* exit status of the probe is not looked at.
CodecReturn ==
    /\ cpc = "exited"
    /\ cpc' = "returned"
    /\ cret' = Ok(Trim(FromUtf8Lossy(probe_output[1].stdout)))
    /\ UNCHANGED <<probe_stdout, probe_output>>
    /\ UNCHANGED <<evars, gvars>>

CNext ==
    \/ \E e \in SpawnErrs : CodecSpawnErr(e)
    \/ CodecSpawnOk
    \/ \E b \in ProbeBytes : ProbeWrite(b)
    \/ \E c \in {None} \cup {Some(x) : x \in ProbeCodes} : ProbeExit(c)
    \/ CodecReturn

\* ======================================================== specifications
\* One export, supervised from spawn to its terminal notification.
ENext == ExportNext(1)

ExportInit == EInit /\ GIdle /\ CInit

ExportSpec == ExportInit /\ [][ENext]_vars

\* Proxy calls, running concurrently with each other and with changes to
\* the input files.
PNext == GNext

ProxyInit == EInit /\ GInit /\ CInit

ProxySpec == ProxyInit /\ [][PNext]_vars

\* Proxy calls on a machine whose cache directory holds no file yet: every
\* file in it is written by a child of one of the calls.
FreshProxyInit == ProxyInit /\ cacheFiles = {}

FreshProxySpec == FreshProxyInit /\ [][PNext]_vars

\* One probe of a file's codec.
CodecInit == EInit /\ GIdle /\ CInit

CodecSpec == CodecInit /\ [][CNext]_vars

\* Two exports started one after the other run at the same time, each with
\* its own child, channel and supervising task.
PairNext == \E i \in Exports : ExportNext(i)
PairInit == EInit /\ GIdle /\ CInit
PairSpec == PairInit /\ [][PairNext]_vars

\* ============================================ properties of process_video
IsTerminal(n) == n.name \in {"ffmpeg-finished", "ffmpeg-error"}
IsProgress(n) == n.name = "ffmpeg-progress"
IsStderr(ev) == ev.kind = "Stderr"
IsEnding(ev) == ev.kind \in {"Terminated", "Error"}

Terminals(i) == SelectSeq(notifs[i], IsTerminal)

\* the payloads of the progress notifications, in order
ProgressPayloads(i) ==
    LET ps == SelectSeq(notifs[i], IsProgress)
    IN [k \in 1..Len(ps) |-> ps[k].payload[1]]

\* the lines of the Stderr events the loop received, in order
StderrLines(i) ==
    LET es == SelectSeq(received[i], IsStderr)
    IN [k \in 1..Len(es) |-> es[k].text]

\* every run of consecutive equal elements collapsed to one element
RECURSIVE Collapse(_)
Collapse(s) ==
    IF Len(s) <= 1 THEN s
    ELSE LET front == SubSeq(s, 1, Len(s) - 1)
         IN IF s[Len(s)] = s[Len(s) - 1] THEN Collapse(front)
            ELSE Append(Collapse(front), s[Len(s)])

Contains(s, sub) ==
    \E k \in 0..(Len(s) - Len(sub)) : SubSeq(s, k + 1, k + Len(sub)) = sub

\* everything the child sent on rx, received or still queued
AllSent(i) == received[i] \o chan[i]

\* the first Terminated-or-Error event the child sent, None if there is none
FirstEnding(i) ==
    LET es == SelectSeq(AllSent(i), IsEnding)
    IN IF es = <<>> THEN None ELSE Some(es[1])

TaskEnded(i) == epc[i] \in {"done", "panicked"}
LoopExited(i) == epc[i] \in {"post", "done"}

FallbackPayload == <<"FFmpeg process finished without explicit status code.">>

\* C1: once the supervising task of a spawned export has ended, its
\* notifications hold exactly one terminal notification ('ffmpeg-finished'
\* or 'ffmpeg-error'), and never more than one at any time.
C1_ExactlyOneTerminal ==
    \A i \in Exports :
        /\ Len(Terminals(i)) <= 1
        /\ TaskEnded(i) => Len(Terminals(i)) = 1

\* C2: the terminal notification is the last notification of an export, and
\* the event that ended the read loop is the last event the loop received:
\* whatever is queued behind it stays queued.
C2_TerminalIsLast ==
    \A i \in Exports :
        /\ \A k \in 1..Len(notifs[i]) : IsTerminal(notifs[i][k]) => k = Len(notifs[i])
        /\ \A k \in 1..Len(received[i]) : IsEnding(received[i][k]) => k = Len(received[i])

\* a Stderr line that would have been emitted is left in the channel of a
\* finished export
C2_Witness ==
    \E i \in Exports :
        /\ epc[i] = "done"
        /\ \E k \in 1..Len(chan[i]) :
              /\ IsStderr(chan[i][k])
              /\ Some(chan[i][k].text) # last_progress_line[i]

\* C3: while the task runs and after its loop has exited, the progress
\* payloads emitted are the received Stderr lines with every run of equal
\* consecutive lines collapsed; Stdout events in between do not count.
C3_ProgressIsCollapsedStderr ==
    \A i \in Exports :
        epc[i] \in {"loop", "post", "done"} =>
            ProgressPayloads(i) = Collapse(StderrLines(i))

\* a, (stdout), a was received and surfaced as the single payload a
C3_Witness ==
    \E i \in Exports :
        /\ epc[i] = "done"
        /\ Len(received[i]) = 3
        /\ IsStderr(received[i][1])
        /\ received[i][2].kind = "Stdout"
        /\ received[i][3] = received[i][1]
        /\ Len(ProgressPayloads(i)) = 1

\* C4: a terminal notification is fixed by the first Terminated-or-Error
\* event the child sent: Error gives 'ffmpeg-error' carrying the message,
\* exit code 0 gives 'ffmpeg-finished', exit code c # 0 gives 'ffmpeg-error'
\* containing c; 'ffmpeg-finished' appears iff that event is Terminated(0).
C4_TerminalFromFirstEnding ==
    \A i \in Exports :
        epc[i] = "done" =>
            LET t == notifs[i][Len(notifs[i])]
                fe == FirstEnding(i)
            IN /\ IsTerminal(t)
               /\ (fe # None /\ fe[1].kind = "Error") =>
                     (t.name = "ffmpeg-error" /\ Contains(t.payload, <<fe[1].text>>))
               /\ (fe # None /\ fe[1].kind = "Terminated" /\ fe[1].code = Some(0)) =>
                     t.name = "ffmpeg-finished"
               /\ (fe # None /\ fe[1].kind = "Terminated" /\ fe[1].code # None
                     /\ fe[1].code # Some(0)) =>
                     (t.name = "ffmpeg-error" /\ Contains(t.payload, Decimal(fe[1].code[1])))
               /\ t.name = "ffmpeg-finished" <=>
                     (fe # None /\ fe[1].kind = "Terminated" /\ fe[1].code = Some(0))

\* the loop ended on exit code 12 with an Error event queued behind it
C4_Witness ==
    \E i \in Exports :
        /\ epc[i] = "done"
        /\ received[i] # <<>>
        /\ received[i][Len(received[i])] = Ev("Terminated", "", Some(12))
        /\ \E k \in 1..Len(chan[i]) : chan[i][k].kind = "Error"

\* C5 as stated: the fallback notification appears only when the loop
\* received neither a Terminated nor an Error event.
C5_FallbackOnlyOnClosure ==
    \A i \in Exports :
        \A k \in 1..Len(notifs[i]) :
            notifs[i][k].payload = FallbackPayload =>
                \A j \in 1..Len(received[i]) : ~IsEnding(received[i][j])

\* C5 amended: the fallback notification appears only when the loop
\* received no Error event and no exit code, that is on channel closure or
\* on a Terminated event whose code is None; a Terminated event that carries
\* a code gives 'ffmpeg-finished' or the exit-code error.
C5_FallbackOnlyWithoutCode ==
    \A i \in Exports :
        /\ \A k \in 1..Len(notifs[i]) :
              notifs[i][k].payload = FallbackPayload =>
                 \A j \in 1..Len(received[i]) :
                    /\ received[i][j].kind # "Error"
                    /\ received[i][j].kind = "Terminated" => received[i][j].code = None
        /\ (epc[i] = "done" /\ received[i] # <<>>
              /\ received[i][Len(received[i])].kind = "Terminated"
              /\ received[i][Len(received[i])].code # None) =>
                 notifs[i][Len(notifs[i])] \in
                    { Notif("ffmpeg-finished", <<"Successfully processed video">>),
                      Notif("ffmpeg-error", <<"FFmpeg exited with error code: ">>
                               \o Decimal(received[i][Len(received[i])].code[1])) }

\* both ways to the fallback: this one is a Terminated event without a code
C5_Witness ==
    \E i \in Exports :
        /\ epc[i] = "done"
        /\ notifs[i][Len(notifs[i])].payload = FallbackPayload
        /\ received[i] # <<>>
        /\ received[i][Len(received[i])] = Ev("Terminated", "", None)

\* C6: a failed spawn is reported by the Err return alone (no task, no
\* notification, nothing received); a successful spawn returns
\* Ok("Processing started") for good, and what goes wrong afterwards shows
\* only as an 'ffmpeg-error' notification.
C6_OneFailureChannel ==
    \A i \in Exports :
        /\ epc[i] = "spawn_failed" =>
              /\ eret[i] # NotReturned /\ eret[i][1] = "Err"
              /\ notifs[i] = <<>> /\ received[i] = <<>> /\ chan[i] = <<>>
        /\ Spawned(i) => eret[i] = Ok("Processing started")
        /\ (eret[i] # NotReturned /\ eret[i][1] = "Err") => epc[i] = "spawn_failed"
        /\ (epc[i] = "done"
              /\ (command_error[i] # None \/ exit_code[i] # Some(0))) =>
                 notifs[i][Len(notifs[i])].name = "ffmpeg-error"

\* a post-spawn failure (exit code 1) behind an Ok return
C6_Witness ==
    \E i \in Exports :
        /\ epc[i] = "done"
        /\ eret[i] = Ok("Processing started")
        /\ exit_code[i] = Some(1)
        /\ notifs[i][Len(notifs[i])].name = "ffmpeg-error"

\* C13: a notification that cannot be delivered does not end the
\* supervising task: the task is never stopped by the panic of a failed
\* emit, it goes on to its terminal step.
C13_FailedNotifyNotFatal ==
    \A i \in Exports : epc[i] # "panicked"

\* C14: every progress payload is the line of a Stderr event the loop
\* received, and a step that receives a Stdout event leaves the
\* notifications, the outcome variables and the dedup state as they were.
C14_StdoutNeverSurfaced ==
    /\ [](\A i \in Exports :
            \A k \in 1..Len(ProgressPayloads(i)) :
               \E m \in 1..Len(received[i]) :
                  /\ IsStderr(received[i][m])
                  /\ received[i][m].text = ProgressPayloads(i)[k])
    /\ [][\A i \in Exports :
            (/\ Len(received'[i]) = Len(received[i]) + 1
             /\ received'[i][Len(received'[i])].kind = "Stdout") =>
                /\ notifs'[i] = notifs[i]
                /\ epc'[i] = epc[i]
                /\ exit_code'[i] = exit_code[i]
                /\ command_error'[i] = command_error[i]
                /\ last_progress_line'[i] = last_progress_line[i]]_vars

\* Stdout line b was received between Stderr lines, and only a was surfaced
C14_Witness ==
    \E i \in Exports :
        /\ epc[i] = "done"
        /\ \E k \in 1..Len(received[i]) : received[i][k] = Ev("Stdout", "b", None)
        /\ \E k \in 1..Len(received[i]) : received[i][k] = Ev("Stderr", "a", None)
        /\ ProgressPayloads(i) = <<"a">>

\* the terminal notification reports an exit: success or an exit code
ReportsExit(n) ==
    \/ n.name = "ffmpeg-finished"
    \/ /\ n.name = "ffmpeg-error"
       /\ n.payload[1] = "FFmpeg exited with error code: "

LastOf(s) == IF s = <<>> THEN None ELSE Some(s[Len(s)])

IsOk(r) == r # NotReturned /\ r[1] = "Ok"

\* the call tried to start an ffmpeg child
SpawnTried(c) == \E k \in 1..Len(glog[c]) : glog[c][k].op = "spawn"

\* the call's first look at its output path found nothing
LookupMissed(c) ==
    \E k \in 1..Len(glog[c]) :
        /\ glog[c][k].op = "output.exists" /\ ~glog[c][k].res
        /\ \A m \in 1..(k - 1) : glog[c][m].op # "output.exists"

\* call j began after call i had ended, on the same input path
Sequential(i, j) == i \in gbefore[j] /\ input_path[i] = input_path[j]

\* C7: when a call that built its proxy has returned Ok, a later call on the
\* same path, the input not modified since the first call began, returns the
\* same Ok(path) from the cache and starts no child: one invocation in all.
C7_CacheIdempotent ==
    \A i \in Calls : \A j \in Calls :
        (/\ Sequential(i, j)
         /\ IsOk(gret[i]) /\ child[i] # "none"
         /\ ~gtouched[i]
         /\ Ended(j)) =>
            /\ gret[j] = gret[i]
            /\ child[j] = "none" /\ ~SpawnTried(j)
            /\ glog[j][Len(glog[j])] = Op("output.exists", gret[i][2], TRUE)

C7_Witness ==
    \E i \in Calls : \E j \in Calls :
        /\ Sequential(i, j)
        /\ IsOk(gret[i]) /\ child[i] = "exited"
        /\ ~gtouched[i]
        /\ gpc[j] = "done" /\ gret[j] = gret[i]

\* C8 as stated: when the modification time read by the second of two
\* sequential calls differs from the one read by the first (which returned
\* its proxy), the second derives another output path and spawns a child.
C8_AnyMtimeChangeRebuilds ==
    \A i \in Calls : \A j \in Calls :
        (/\ Sequential(i, j)
         /\ IsOk(gret[i])
         /\ output_path[i] # None /\ output_path[j] # None
         /\ modified[i] # modified[j]
         /\ Ended(j)) =>
            /\ output_path[j] # output_path[i]
            /\ SpawnTried(j)

\* C8 amended: when the two modification times fall in different whole
\* seconds since the epoch, the second call derives another output path,
\* does not return the first call's file, and spawns a child unless a file
\* is already there at the new path.
C8_SecondChangeInvalidates ==
    \A i \in Calls : \A j \in Calls :
        (/\ Sequential(i, j)
         /\ IsOk(gret[i])
         /\ output_path[i] # None /\ output_path[j] # None
         /\ modified[i][1] \div TicksPerSec # modified[j][1] \div TicksPerSec
         /\ Ended(j)) =>
            /\ output_path[j] # output_path[i]
            /\ gret[j] # gret[i]
            /\ LookupMissed(j) => SpawnTried(j)
            /\ ~LookupMissed(j) => gret[j] = Ok(output_path[j][1])

\* the second call built a second proxy under another name
C8_Witness ==
    \E i \in Calls : \E j \in Calls :
        /\ Sequential(i, j)
        /\ IsOk(gret[i]) /\ child[i] = "exited"
        /\ IsOk(gret[j]) /\ child[j] = "exited"
        /\ modified[i] # modified[j]
        /\ gret[j] # gret[i]

\* C9: a call returns Ok(path) only after its own exists() check of that
\* path succeeded, and the file is there; a child that exits 0 without the
\* file gives the output-missing error.
C9_OkPathWasChecked ==
    \A c \in Calls :
        /\ IsOk(gret[c]) =>
              /\ gret[c][2] = output_path[c][1]
              /\ glog[c][Len(glog[c])] = Op("output.exists", gret[c][2], TRUE)
              /\ gret[c][2] \in cacheFiles
        /\ (/\ Ended(c) /\ output[c] # None /\ Success(output[c][1])
            /\ glog[c][Len(glog[c])] = Op("output.exists", output_path[c][1], FALSE)) =>
              gret[c] = OutputMissing

\* the child exited 0, wrote nothing, and the call failed
C9_Witness ==
    \E c \in Calls :
        /\ gret[c] = OutputMissing
        /\ output[c] # None /\ Success(output[c][1])
        /\ output_path[c][1] \notin cacheFiles

\* C10: a call whose input.exists() was false returns the input-not-found
\* error and did nothing else: no cache directory resolved or created, no
\* metadata read, no output path, no child, whatever the state of the
\* cache directory.
C10_MissingInputFirst ==
    \A c \in Calls :
        (gpc[c] # "idle" /\ ~glog[c][1].res) =>
            /\ gpc[c] = "done"
            /\ gret[c] = InputNotFound(input_path[c][1])
            /\ glog[c] = <<Op("input.exists", input_path[c], FALSE)>>
            /\ modified[c] = None /\ output_path[c] = None
            /\ child[c] = "none" /\ output[c] = None

\* input missing and the cache directory unavailable too
C10_Witness ==
    \E c \in Calls :
        /\ gpc[c] = "done"
        /\ gret[c] = InputNotFound(input_path[c][1])
        /\ appDir \in {"none", "uncreatable"}
        /\ ~cacheDirExists

\* C12: a call whose child did not exit with status 0 returns Err, never
\* Ok, with a message that carries the exit code and the captured stderr,
\* also when the file is there at the derived path.
C12_FailedBuildIsErr ==
    \A c \in Calls :
        (Ended(c) /\ output[c] # None /\ ~Success(output[c][1])) =>
            /\ gpc[c] = "done"
            /\ gret[c][1] = "Err"
            /\ Contains(gret[c][2], <<output[c][1].stderr>>)
            /\ output[c][1].code # None =>
                  Contains(gret[c][2], Decimal(output[c][1].code[1]))

\* the child wrote its output file and exited 1
C12_Witness ==
    \E c \in Calls :
        /\ gpc[c] = "done"
        /\ output[c] # None /\ output[c][1].code = Some(1)
        /\ Wrote(c) /\ output_path[c][1] \in cacheFiles
        /\ gret[c][1] = "Err"

\* C15: two calls on the same path that read the same modification time
\* and derived their output path: when every one of them that missed the
\* cache got a child that wrote the file and exited 0, both return Ok with
\* the same path, whatever the interleaving.
C15_BuildersAgree ==
    \A i \in Calls : \A j \in Calls :
        (/\ i # j
         /\ input_path[i] # None /\ input_path[i] = input_path[j]
         /\ modified[i] # None /\ modified[i] = modified[j]
         /\ Ended(i) /\ Ended(j)
         /\ \A c \in {i, j} :
               /\ output_path[c] # None
               /\ LookupMissed(c) =>
                     (child[c] = "exited" /\ Success(output[c][1]) /\ Wrote(c))) =>
            /\ IsOk(gret[i]) /\ gret[j] = gret[i]
            /\ gret[i] = Ok(output_path[i][1])

\* neither call began after the other ended, both missed the cache, both
\* children ran, and both calls returned the same path
C15_Witness ==
    \E i \in Calls : \E j \in Calls :
        /\ i # j
        /\ i \notin gbefore[j] /\ j \notin gbefore[i]
        /\ input_path[i] = input_path[j]
        /\ LookupMissed(i) /\ LookupMissed(j)
        /\ child[i] = "exited" /\ child[j] = "exited"
        /\ Wrote(i) /\ Wrote(j)
        /\ IsOk(gret[i]) /\ gret[j] = gret[i]

\* C17: in a cache that only children of the calls write to, a call returns
\* Ok(path) only if a child given that path has exited with status 0; stated
\* for a call that began after every other call on that path had ended.
C17_OkOnlyAfterSuccessfulBuild ==
    \A c \in Calls :
        (/\ IsOk(gret[c])
         /\ \A d \in Calls \ {c} :
               output_path[d] = Some(gret[c][2]) => d \in gbefore[c]) =>
            \E d \in Calls :
                /\ output_path[d] = Some(gret[c][2])
                /\ output[d] # None /\ Success(output[d][1])

\* ========================================== properties of get_video_codec
ProbeRan == probe_output # None

\* C11: the call returns Ok only when the probe ran and exited 0; a probe
\* that cannot be spawned and a probe that exits non-zero both give Err.
C11_ErrUnlessProbeExitsZero ==
    cpc = "returned" =>
        (IsOk(cret) <=> (ProbeRan /\ probe_output[1].code = Some(0)))

\* s is whitespace from position a + 1 to position b
AllWhitespace(s, a, b) == \A k \in (a + 1)..b : IsWhitespace(s[k])

\* C16: when the probe ran and exited 0 the call returns Ok(r), where the
\* probe's stdout text is whitespace, then r, then whitespace, and r neither
\* starts nor ends with whitespace; stdout that is empty or all whitespace
\* gives Ok("").
C16_OkOfTrimmedStdout ==
    (cpc = "returned" /\ ProbeRan /\ probe_output[1].code = Some(0)) =>
        LET text == FromUtf8Lossy(probe_output[1].stdout)
            r == cret[2]
        IN /\ IsOk(cret)
           /\ \E a \in 0..Len(text) :
                 /\ a + Len(r) <= Len(text)
                 /\ AllWhitespace(text, 0, a)
                 /\ SubSeq(text, a + 1, a + Len(r)) = r
                 /\ AllWhitespace(text, a + Len(r), Len(text))
           /\ r # <<>> => (~IsWhitespace(r[1]) /\ ~IsWhitespace(r[Len(r)]))
           /\ AllWhitespace(text, 0, Len(text)) => cret = Ok(<<>>)

\* "h\n" came back as "h", after leading whitespace was dropped too
C16_Witness ==
    /\ cpc = "returned"
    /\ probe_output = Some([code |-> Some(0), stdout |-> <<" ", "h", "\n">>])
    /\ cret = Ok(<<"h">>)

====
